---- MODULE Spec2Model ----
(***************************************************************************)
(* A model of the paginated batch fetcher (src/src/asyncs.py) and of the   *)
(* column flattener (src/src/data_pipeline_tools/util.py).                 *)
(*                                                                         *)
(* Spec        : one call of get_all_data on the asyncio event loop.       *)
(* SpecFlatten : one call of flatten_columns / find_and_flatten_columns.   *)
(***************************************************************************)
EXTENDS Integers, Sequences, FiniteSets, TLC

\* ------------------------------------------------------------------ bounds
MaxPages == 3       \* pages argument ranges over 0..MaxPages
MaxBatch == 2       \* batch_size argument ranges over 1..MaxBatch
MaxRecs  == 2       \* a page's array holds 0..MaxRecs records
MaxRows  == 3       \* the table given to the flattener has 0..MaxRows rows

VARIABLES
    \* ---- get_all_data (asyncs.py)
    pages,          \* argument `pages`
    batch_size,     \* argument `batch_size`
    pc,             \* position of the get_all_data coroutine
    bi,             \* index of the for loop of line 74 into range(1, pages+1, batch_size)
    task,           \* page -> the task ensure_future made for it (line 48)
    outer,          \* the future asyncio.gather returned for the current batch (line 50)
    done_order,     \* history: the pages in the order their tasks finished
    requests,       \* history: the groups of pages requested, in order of issue
    dfs,            \* local `dfs` of get_all_data (line 73)
    table,          \* the DataFrame get_all_data returned
    error,          \* the exception get_all_data raised to its caller
    \* ---- flatten_columns / find_and_flatten_columns (util.py)
    fpc,            \* position of the call
    entry,          \* the function the caller called
    df0,            \* history: the caller's DataFrame as it was given
    df,             \* the caller's DataFrame (flatten_columns assigns into it)
    nested_columns, \* argument `nested_columns`
    ci,             \* index of the for loop of line 86 into nested_columns
    flat_df,        \* local `flat_df` (unbound until line 96 has run)
    result,         \* the DataFrame the call returned
    ferror          \* the exception the call raised

fetchVars == <<pages, batch_size, pc, bi, task, outer, done_order, requests,
               dfs, table, error>>

flattenVars == <<fpc, entry, df0, df, nested_columns, ci, flat_df, result, ferror>>

vars == <<fetchVars, flattenVars>>

\* ------------------------------------------------------------- helpers
Min(a, b) == IF a <= b THEN a ELSE b

RECURSIVE ConcatAll(_)
\* pd.concat(dfs) on a non-empty list of frames / the nested comprehension of
\* line 52: the rows of each element, in element order.
ConcatAll(ss) == IF ss = <<>> THEN <<>> ELSE Head(ss) \o ConcatAll(Tail(ss))

\* ------------------------------------------------------------- responses
\* What the server (or the network) answers to one page request.
\*   kind "neterr"  : no response, session.get raises
\*   kind "nonjson" : a body response.json() cannot decode (it raises)
\*   kind "nokey"   : a JSON object without the array key
\*   kind "ok"      : a JSON object whose array key holds n records
\* status is the HTTP status of the response (0 when there is none).
Statuses == {200, 500}

Responses ==
    {[status |-> 0, kind |-> "neterr", n |-> 0]}
    \cup {[status |-> s, kind |-> k, n |-> 0] : s \in Statuses, k \in {"nonjson", "nokey"}}
    \cup {[status |-> s, kind |-> "ok", n |-> m] : s \in Statuses, m \in 0..MaxRecs}

NoResp == [status |-> 0, kind |-> "none", n |-> 0]

\* get_data (lines 22-23): session.get raises on a transport error and
\* response.json() raises on a body that is not JSON; the status of the
\* response is never looked at (no raise_for_status).
GetDataRaises(r) == r.kind \in {"neterr", "nonjson"}

\* result[key] of line 52 raises KeyError when the key is missing.
HasKey(r) == r.kind = "ok"

\* result[key]: the records of page p, in array order.  A record is named by
\* its page and its position in the page's array.
PageRecords(p, r) == [i \in 1..r.n |-> <<p, i>>]

\* ------------------------------------------------------------- batching
\* range(1, pages + 1, batch_size) of line 74.
RangeStarts(np, bs) == [i \in 1..((np + bs - 1) \div bs) |-> 1 + (i - 1) * bs]

\* A faulty EndPage: the end of the batch is one page too far.
EndPageOffByOne(start, bs, np) == Min(start + bs, np)

\* end_page of line 75.
EndPage(start, bs, np) == Min(start + bs - 1, np)

\* range(start_page, end_page + 1) of line 46.
PageRange(lo, hi) == [i \in 1..(hi - lo + 1) |-> lo + i - 1]

SeqToSet(s) == {s[i] : i \in 1..Len(s)}

CurStart == RangeStarts(pages, batch_size)[bi]
CurEnd   == EndPage(CurStart, batch_size, pages)
CurBatch == PageRange(CurStart, CurEnd)

Pending == {p \in DOMAIN task : task[p].st = "pending"}

\* A faulty GatherResults: the results in the order the tasks finished.
GatherResultsAsCompleted(batch, order) ==
    LET mine == SelectSeq(order, LAMBDA p : p \in SeqToSet(batch))
    IN [i \in 1..Len(mine) |-> [page |-> mine[i], resp |-> task[mine[i]].resp]]

\* The value gather hands back: the tasks' results in the order of the
\* awaitables it was given, not in the order they finished (`order`).
GatherResults(batch, order) ==
    [i \in 1..Len(batch) |-> [page |-> batch[i], resp |-> task[batch[i]].resp]]

\* A faulty GatherDone: the outer future is resolved by the first child to
\* finish, whatever the others are doing.
GatherDoneFirstCompleted(o, p, r) ==
    LET n == [o EXCEPT !.nfinished = @ + 1]
    IN IF o.state # "pending" THEN n
       ELSE IF GetDataRaises(r) THEN [n EXCEPT !.state = "exception", !.page = p]
       ELSE [n EXCEPT !.state = "result"]

\* gather's _done_callback for the child of page p, which finished with
\* response r: the child is counted; the first exception is set on the outer
\* future at once; the result is set when the last of the o.nfuts children
\* finishes; a future that is already resolved stays as it is.
GatherDone(o, p, r) ==
    LET n == [o EXCEPT !.nfinished = @ + 1]
    IN IF o.state # "pending" THEN n
       ELSE IF GetDataRaises(r) THEN [n EXCEPT !.state = "exception", !.page = p]
       ELSE IF n.nfinished = n.nfuts THEN [n EXCEPT !.state = "result"]
       ELSE n

\* ------------------------------------------------------------- values
\* A cell of a DataFrame: a decoded JSON value, or NaN where the record had
\* no such field.  t is the Python type; a dict carries its items in d, a
\* function from keys to values.
VNone     == [t |-> "None"]
VNaN      == [t |-> "float", v |-> "nan"]
VInt(s)   == [t |-> "int", v |-> s]
VList     == [t |-> "list", v |-> "[1]"]
VDict(d)  == [t |-> "dict", d |-> d]
EmptyDict == VDict(<<>>)

\* A table: n rows under the default RangeIndex (the index reset_index of
\* asyncs.py line 78 leaves), and the columns by name.  Column names are
\* distinct; the order of the columns of a result is not modelled.
Table(n, col) == [n |-> n, col |-> col]
NoTable == Table(0, <<>>)
Unbound == [bound |-> FALSE, t |-> NoTable]
Bound(t) == [bound |-> TRUE, t |-> t]

\* The columns of the tables given to the flattener, in column order:
\* "id" holds a scalar, "a" and "b" may hold mappings.
InputColumns == <<"id", "a", "b">>

ValsA == { VNone, VNaN, VInt("1"), VList,
           VDict([x |-> VInt("1")]), VDict([x |-> VInt("2")]),
           VDict([x |-> VDict([j |-> VInt("1")])]) }

\* Column b holds the mapping {"y": 3} in every row, or in every row but the
\* first, which then holds a scalar.
ColumnsB(n) == { [i \in 1..n |-> VDict([y |-> VInt("3")])],
                 [i \in 1..n |-> IF i = 1 THEN VInt("7") ELSE VDict([y |-> VInt("3")])] }

Tables ==
    UNION { { Table(n, [id |-> [i \in 1..n |-> VInt(ToString(i))], a |-> ca, b |-> cb]) :
                ca \in [1..n -> ValsA], cb \in ColumnsB(n) } : n \in 0..MaxRows }

\* The lists of distinct existing columns a caller names for flattening.
ColumnLists == { <<>>, <<"a">>, <<"b">>, <<"a", "b">>, <<"b", "a">> }

\* ------------------------------------------------------------- flattening
\* A faulty WrapScalar: a list is not wrapped.
WrapScalarNotList(x) == IF x.t \in {"float", "int", "str"} THEN VDict([value |-> x]) ELSE x

\* The lambda of line 88: a float (NaN is one), an int, a list or a str
\* becomes {"value": x}.
WrapScalar(x) == IF x.t \in {"float", "int", "list", "str"} THEN VDict([value |-> x]) ELSE x

\* The lambda of line 90: None becomes {}.
NoneToEmpty(x) == IF x.t # "None" THEN x ELSE EmptyDict

\* Lines 88 and 90: both lambdas applied to every value of the column.
NormalizeColumn(vals) == [i \in 1..Len(vals) |-> NoneToEmpty(WrapScalar(vals[i]))]

\* pandas nested_to_record with max_level = 1: a value that is itself a dict
\* is replaced by one entry "<key>.<inner key>" per inner item; the inner
\* values are taken as they are.
FlatItems(d) ==
    UNION { IF d[k].t = "dict"
            THEN { <<k \o "." \o j, d[k].d[j]>> : j \in DOMAIN d[k].d }
            ELSE { <<k, d[k]>> } : k \in DOMAIN d }

NestedToRecord(d) ==
    [key \in {it[1] : it \in FlatItems(d)} |-> (CHOOSE it \in FlatItems(d) : it[1] = key)[2]]

\* pd.json_normalize(series, max_level=1) of line 93 raises when an element is
\* not a dict.
JsonNormalizeRaises(vals) == \E i \in 1..Len(vals) : vals[i].t # "dict"

\* pd.json_normalize(series, max_level=1): one row per element, one column
\* per key of any flattened element, NaN where an element has no such key.
JsonNormalize(vals) ==
    LET recs == [i \in 1..Len(vals) |-> NestedToRecord(vals[i].d)]
        keys == UNION {DOMAIN recs[i] : i \in 1..Len(vals)}
    IN Table(Len(vals),
             [k \in keys |-> [i \in 1..Len(vals) |->
                                 IF k \in DOMAIN recs[i] THEN recs[i][k] ELSE VNaN]])

\* .add_prefix(f"{column}_") of line 93.
AddPrefix(t, prefix) ==
    Table(t.n, [name \in {prefix \o k : k \in DOMAIN t.col} |->
                  t.col[CHOOSE k \in DOMAIN t.col : prefix \o k = name]])

\* A faulty ConcatColumns: only the flattened columns are kept.
ConcatColumnsRightOnly(l, r) == r

\* pd.concat([l, r], axis=1) of line 96, both frames of l.n rows under the
\* default index: the columns of l and the columns of r, row by row.
ConcatColumns(l, r) ==
    Table(l.n, [name \in DOMAIN l.col \cup DOMAIN r.col |->
                  IF name \in DOMAIN l.col THEN l.col[name] ELSE r.col[name]])

\* .drop(column, axis=1) of line 97.
DropColumn(t, c) == Table(t.n, [name \in DOMAIN t.col \ {c} |-> t.col[name]])

\* df[column] = ... of lines 88 and 90: the assignment into the caller's frame.
AssignColumn(t, c, vals) == Table(t.n, [t.col EXCEPT ![c] = vals])

\* Lines 88-97 for one column of frame t: the frame with the column
\* normalised, the expansion joined to it and the column dropped.
FlattenColumn(t, column) ==
    LET norm == NormalizeColumn(t.col[column])
    IN DropColumn(ConcatColumns(AssignColumn(t, column, norm),
                                AddPrefix(JsonNormalize(norm), column \o "_")),
                  column)

\* The comprehension of line 74: the columns whose first-row value is a dict,
\* in column order.
FirstRowDictColumns(t) ==
    SelectSeq(InputColumns, LAMBDA c : c \in DOMAIN t.col /\ t.col[c][1].t = "dict")

\* ------------------------------------------------------------- Init
NoError == [kind |-> "none", page |-> 0]

\* Under Spec no flattener call is made; under SpecFlatten no fetch is made.
FlattenIdle ==
    /\ fpc = "idle"
    /\ entry = "none"
    /\ df0 = NoTable
    /\ df = NoTable
    /\ nested_columns = <<>>
    /\ ci = 1
    /\ flat_df = Unbound
    /\ result = NoTable
    /\ ferror = "none"

FetchIdle ==
    /\ pages = 0
    /\ batch_size = 1
    /\ pc = "idle"
    /\ bi = 1
    /\ task = <<>>
    /\ outer = [state |-> "none", page |-> 0, nfuts |-> 0, nfinished |-> 0]
    /\ done_order = <<>>
    /\ requests = <<>>
    /\ dfs = <<>>
    /\ table = <<>>
    /\ error = NoError

Init ==
    /\ pages \in 0..MaxPages
    /\ batch_size \in 1..MaxBatch
    /\ pc = "loop"
    /\ bi = 1
    /\ task = [p \in 1..pages |-> [st |-> "none", resp |-> NoResp]]
    /\ outer = [state |-> "none", page |-> 0, nfuts |-> 0, nfinished |-> 0]
    /\ done_order = <<>>
    /\ requests = <<>>
    /\ dfs = <<>>
    /\ table = <<>>
    /\ error = NoError
    /\ FlattenIdle

\* The state of SpecFlatten before the call: the caller holds a DataFrame.
InitFlatten ==
    /\ df0 \in Tables
    /\ df = df0
    /\ fpc = "call"
    /\ entry = "none"
    /\ nested_columns = <<>>
    /\ ci = 1
    /\ flat_df = Unbound
    /\ result = NoTable
    /\ ferror = "none"
    /\ FetchIdle

\* ------------------------------------------------------------- actions
\* Lines 74-77 and 44-50: the next iteration of the for loop enters
\* get_data_for_page_range, which makes one task per page of the batch and
\* awaits their gather.  No await lies between, so this is one step.
StartBatch ==
    /\ pc = "loop"
    /\ bi <= Len(RangeStarts(pages, batch_size))
    /\ task' = [p \in DOMAIN task |->
                  IF p \in SeqToSet(CurBatch) THEN [st |-> "pending", resp |-> NoResp]
                  ELSE task[p]]
    /\ requests' = Append(requests, CurBatch)
    /\ outer' = [state |-> "pending", page |-> 0, nfuts |-> Len(CurBatch), nfinished |-> 0]
    /\ pc' = "gather"
    /\ UNCHANGED <<pages, batch_size, bi, done_order, dfs, table, error, flattenVars>>

\* The task of page p finishes: get_data returned the decoded body or raised.
\* A task keeps running after gather has delivered another task's exception
\* (gather cancels nothing), so this is enabled whatever pc is.
Complete(p, r) ==
    /\ task[p].st = "pending"
    /\ task' = [task EXCEPT ![p] = [st |-> "done", resp |-> r]]
    /\ done_order' = Append(done_order, p)
    /\ outer' = GatherDone(outer, p, r)
    /\ UNCHANGED <<pages, batch_size, pc, bi, requests, dfs, table, error, flattenVars>>

\* Line 50: the await of gather raises the first exception set on it; nothing
\* catches it in get_data_for_page_range or get_all_data.
GatherRaise ==
    /\ pc = "gather"
    /\ outer.state = "exception"
    /\ pc' = "raised"
    /\ error' = [kind |-> "request", page |-> outer.page]
    /\ UNCHANGED <<pages, batch_size, bi, task, outer, done_order, requests, dfs, table, flattenVars>>

\* Line 52, a result without the key: KeyError, which nothing catches.
BatchKeyError ==
    /\ pc = "gather"
    /\ outer.state = "result"
    /\ LET res == GatherResults(CurBatch, done_order)
           bad == {i \in 1..Len(res) : ~HasKey(res[i].resp)}
       IN /\ bad # {}
          /\ error' = [kind |-> "KeyError",
                       page |-> res[CHOOSE i \in bad : \A j \in bad : i <= j].page]
    /\ pc' = "raised"
    /\ UNCHANGED <<pages, batch_size, bi, task, outer, done_order, requests, dfs, table, flattenVars>>

\* A faulty BatchReturn: the batch is not awaited before the loop moves on.
BatchReturnNoAwait ==
    /\ pc = "gather"
    /\ dfs' = Append(dfs, <<>>)
    /\ bi' = bi + 1
    /\ pc' = "loop"
    /\ UNCHANGED <<pages, batch_size, task, outer, done_order, requests, table, error, flattenVars>>

\* Lines 52 and 77: the batch's frame is built from the results and appended
\* to dfs; the for loop moves on.
BatchReturn ==
    /\ pc = "gather"
    /\ outer.state = "result"
    /\ LET res == GatherResults(CurBatch, done_order)
       IN /\ \A i \in 1..Len(res) : HasKey(res[i].resp)
          /\ dfs' = Append(dfs, ConcatAll([i \in 1..Len(res) |->
                                              PageRecords(res[i].page, res[i].resp)]))
    /\ bi' = bi + 1
    /\ pc' = "loop"
    /\ UNCHANGED <<pages, batch_size, task, outer, done_order, requests, table, error, flattenVars>>

\* Line 78 with a non-empty dfs.
ConcatReturn ==
    /\ pc = "loop"
    /\ bi > Len(RangeStarts(pages, batch_size))
    /\ dfs # <<>>
    /\ table' = ConcatAll(dfs)
    /\ pc' = "done"
    /\ UNCHANGED <<pages, batch_size, bi, task, outer, done_order, requests, dfs, error, flattenVars>>

\* Line 78 with an empty dfs: pd.concat([]) raises ValueError
\* ("No objects to concatenate").
ConcatRaise ==
    /\ pc = "loop"
    /\ bi > Len(RangeStarts(pages, batch_size))
    /\ dfs = <<>>
    /\ error' = [kind |-> "ValueError", page |-> 0]
    /\ pc' = "raised"
    /\ UNCHANGED <<pages, batch_size, bi, task, outer, done_order, requests, dfs, table, flattenVars>>

Next ==
    \/ StartBatch
    \/ \E p \in DOMAIN task, r \in Responses : Complete(p, r)
    \/ GatherRaise
    \/ BatchKeyError
    \/ BatchReturn
    \/ ConcatReturn
    \/ ConcatRaise

Spec == Init /\ [][Next]_vars

\* ------------------------------------------------------------- flattener
\* A caller calls flatten_columns(df, cols) with existing columns.
CallFlattenColumns(cols) ==
    /\ fpc = "call"
    /\ entry' = "flatten_columns"
    /\ nested_columns' = cols
    /\ fpc' = "loop"
    /\ UNCHANGED <<df0, df, ci, flat_df, result, ferror, fetchVars>>

\* Line 74 on a frame with a first row: find_and_flatten_columns calls
\* flatten_columns with the columns whose first-row value is a dict.
CallFindAndFlatten ==
    /\ fpc = "call"
    /\ df.n >= 1
    /\ entry' = "find_and_flatten_columns"
    /\ nested_columns' = FirstRowDictColumns(df)
    /\ fpc' = "loop"
    /\ UNCHANGED <<df0, df, ci, flat_df, result, ferror, fetchVars>>

\* Line 74 on a frame without rows: df.iloc[0] raises IndexError.
FindAndFlattenNoRow ==
    /\ fpc = "call"
    /\ df.n = 0
    /\ entry' = "find_and_flatten_columns"
    /\ ferror' = "IndexError"
    /\ fpc' = "raised"
    /\ UNCHANGED <<df0, df, nested_columns, ci, flat_df, result, fetchVars>>

\* Lines 86-97: one iteration of the loop.  The column is normalised in the
\* caller's frame, expanded, and flat_df is made from the caller's frame
\* (not from the flat_df of the iteration before) and the expansion.
FlattenIter ==
    /\ fpc = "loop"
    /\ ci <= Len(nested_columns)
    /\ LET column == nested_columns[ci]
           norm   == NormalizeColumn(df.col[column])
           newdf  == AssignColumn(df, column, norm)
       IN /\ df' = newdf
          /\ IF JsonNormalizeRaises(norm)
             THEN /\ ferror' = "AttributeError"
                  /\ fpc' = "raised"
                  /\ UNCHANGED <<flat_df, ci>>
             ELSE /\ flat_df' = Bound(FlattenColumn(df, column))
                  /\ ci' = ci + 1
                  /\ UNCHANGED <<fpc, ferror>>
    /\ UNCHANGED <<entry, df0, nested_columns, result, fetchVars>>

\* Line 99 after at least one iteration.
FlattenReturn ==
    /\ fpc = "loop"
    /\ ci > Len(nested_columns)
    /\ flat_df.bound
    /\ result' = flat_df.t
    /\ fpc' = "returned"
    /\ UNCHANGED <<entry, df0, df, nested_columns, ci, flat_df, ferror, fetchVars>>

\* Line 99 when the loop body never ran: flat_df is not bound and the return
\* raises UnboundLocalError.
FlattenUnbound ==
    /\ fpc = "loop"
    /\ ci > Len(nested_columns)
    /\ ~flat_df.bound
    /\ ferror' = "UnboundLocalError"
    /\ fpc' = "raised"
    /\ UNCHANGED <<entry, df0, df, nested_columns, ci, flat_df, result, fetchVars>>

NextFlatten ==
    \/ \E cols \in ColumnLists : CallFlattenColumns(cols)
    \/ CallFindAndFlatten
    \/ FindAndFlattenNoRow
    \/ FlattenIter
    \/ FlattenReturn
    \/ FlattenUnbound

SpecFlatten == InitFlatten /\ [][NextFlatten]_vars

\* ------------------------------------------------------------- properties
Issued == SeqToSet(ConcatAll(requests))

\* The index of the group in which page p was requested (0: not requested).
GroupOf(p) == IF p \in Issued
              THEN CHOOSE g \in 1..Len(requests) : p \in SeqToSet(requests[g])
              ELSE 0

Ceil(a, b) == (a + b - 1) \div b

IsOutOfOrder(s) == \E i, j \in 1..Len(s) : i < j /\ s[i] > s[j]

\* get_all_data has come to its end without any request failing: it returned,
\* or (with no page at all) it reached line 78.
FetchEnded == pc = "done" \/ error.kind = "ValueError"

\* C1: when get_all_data returns, the rows of its table are the records of
\* page 1, then page 2, ..., then page `pages`, each page's records in array
\* order, whatever order the requests of a batch finished in.
C1_PageOrder ==
    (pc = "done" /\ pages >= 1) =>
        table = ConcatAll([p \in 1..pages |-> PageRecords(p, task[p].resp)])

\* A fetch of several batches in which requests finished out of page order,
\* with a page of two records.
C1_Witness ==
    /\ pc = "done"
    /\ Len(requests) >= 2
    /\ IsOutOfOrder(done_order)
    /\ \E p \in DOMAIN task : task[p].resp.n >= 2
    /\ Len(table) >= 3

\* C2: get_all_data requests each page 1..pages once and never twice, in
\* contiguous groups of batch_size pages; once it has run to its end without a
\* failure there are ceil(pages / batch_size) groups, only the last of which
\* may be shorter.  For pages = 25, batch_size = 10 the groups are 1-10,
\* 11-20, 21-25.
C2_Requests ==
    /\ \A g \in 1..Len(requests) :
          /\ requests[g] = PageRange((g - 1) * batch_size + 1, Min(g * batch_size, pages))
          /\ Len(requests[g]) >= 1
          /\ Len(requests[g]) <= batch_size
          /\ g < Len(requests) => Len(requests[g]) = batch_size
    /\ Len(requests) <= Ceil(pages, batch_size)
    /\ FetchEnded =>
          /\ Len(requests) = Ceil(pages, batch_size)
          /\ ConcatAll(requests) = PageRange(1, pages)
          /\ Len(ConcatAll(requests)) = pages
    /\ [i \in 1..Len(RangeStarts(25, 10)) |->
           <<RangeStarts(25, 10)[i], EndPage(RangeStarts(25, 10)[i], 10, 25)>>]
         = << <<1, 10>>, <<11, 20>>, <<21, 25>> >>

\* A finished fetch of several groups whose last group is shorter.
C2_Witness ==
    /\ pc = "done"
    /\ Len(requests) >= 2
    /\ Len(requests[Len(requests)]) < batch_size

\* C3: no request of a later batch is issued while a request of an earlier
\* batch is still in flight, and at most batch_size requests are in flight.
C3_Sequential ==
    /\ Cardinality(Pending) <= batch_size
    /\ \A p, q \in Issued : GroupOf(p) < GroupOf(q) => task[p].st = "done"

\* A later batch in flight after a first batch of several requests.
C3_Witness ==
    /\ Len(requests) >= 2
    /\ batch_size >= 2
    /\ Pending # {}

\* A page request has failed in the sense of the specification: network
\* error, non-2xx status, malformed JSON or missing array key.
RequestFailed(p) ==
    /\ task[p].st = "done"
    /\ \/ task[p].resp.kind \in {"neterr", "nonjson", "nokey"}
       \/ task[p].resp.status \notin {200}

\* C4: if a page request has failed, get_all_data returns no table and no
\* request of a later batch is issued.
C4_FailFast ==
    \A p \in DOMAIN task :
        RequestFailed(p) =>
            /\ pc # "done"
            /\ \A q \in Issued : GroupOf(q) <= GroupOf(p)

\* C5 (as stated): get_data_for_page_range has neither returned nor raised
\* while a request of its batch is in flight.
C5_BatchResolved == pc \in {"loop", "done", "raised"} => Pending = {}

\* C5 (amended): get_data_for_page_range returns normally, and its records
\* are aggregated into dfs, only when every request of the batch has
\* completed; it raises as soon as the first failure of a request has been
\* delivered by gather, whether or not other requests are still in flight,
\* and what it raises is then the failure of a completed request.
C5_ResolvedOnReturn ==
    /\ pc \in {"loop", "done"} => Pending = {}
    /\ \A g \in 1..Len(dfs) : \A i \in 1..Len(requests[g]) : task[requests[g][i]].st = "done"
    /\ (pc = "raised" /\ Pending # {}) =>
          /\ error.kind = "request"
          /\ task[error.page].st = "done"
          /\ GetDataRaises(task[error.page].resp)
    /\ error.kind = "KeyError" => Pending = {}

\* get_all_data has raised the failure of one request while another request
\* of the same batch is still in flight.
C5_Witness ==
    /\ pc = "raised"
    /\ error.kind = "request"
    /\ Pending # {}

\* C10: with pages = 0 get_all_data issues no request and returns an empty
\* table; it does not fail.
C10_ZeroPages ==
    (pages = 0 /\ pc # "loop") => (pc = "done" /\ table = <<>> /\ requests = <<>>)

\* ------------------------------------------------------------- properties
Named == SeqToSet(nested_columns)

\* The columns of the result that the input did not have.
NewColumns == DOMAIN result.col \ DOMAIN df0.col

IsNull(v) == v = VNone \/ v = VNaN

IsScalarOrList(v) == v.t \in {"int", "str", "list"} \/ (v.t = "float" /\ v # VNaN)

\* The mapping the specification says a value is normalised to.
Normalized(v) == IF v.t = "dict" THEN v.d
                 ELSE IF IsNull(v) THEN <<>>
                 ELSE [value |-> v]

\* C6: after flatten_columns with several columns named, no named column is
\* left in the result and, for every named column c and every key k of a
\* mapping of c, the result has a column c_k whose row i holds row i's value
\* for k.
C6_AllNamedExpanded ==
    (fpc = "returned" /\ Len(nested_columns) >= 2) =>
        \A c \in Named :
            /\ c \notin DOMAIN result.col
            /\ \A i \in 1..df0.n : \A k \in DOMAIN Normalized(df0.col[c][i]) :
                  /\ (c \o "_" \o k) \in DOMAIN result.col
                  /\ result.col[c \o "_" \o k][i] = Normalized(df0.col[c][i])[k]

\* C7: a call of flatten_columns, the one find_and_flatten_columns makes
\* included, returns a table of as many rows as its input, row i of which
\* is row i of the input.
C7_RowsPreserved ==
    (fpc \in {"returned", "raised"} /\ ferror # "IndexError") =>
        /\ fpc = "returned"
        /\ result.n = df0.n
        /\ \A name \in DOMAIN result.col : Len(result.col[name]) = df0.n
        /\ result.col["id"] = df0.col["id"]

====
